---------------------------- MODULE Spec2Model ----------------------------
(***************************************************************************)
(* A model of main.py, the NordVPN WireGuard configuration generator.      *)
(*                                                                         *)
(* One run of the program is a straight line: get_token,                   *)
(* fetch_nordlynx_private_key, fetch_servers (extract_wireguard_servers),  *)
(* choose_server, build_wireguard_config, and the write of the output      *)
(* file.  Every function of the source is an operator below, computed the  *)
(* way the source computes it; every stage of main() is an action.         *)
(*                                                                         *)
(* Representation.  A Python str is a sequence of symbols, each symbol a   *)
(* TLA+ string.  Where the code looks inside a string (strip, lower, the   *)
(* substring test, the ordering of the sort, int()) a symbol is a single   *)
(* character.  Where the code only copies a string or asks whether it is   *)
(* empty (keys, addresses, host names, the words of the configuration      *)
(* template) a symbol is a whitespace character or a run of non-whitespace *)
(* characters.  A dict is a record, dict.get is Get, a list is a sequence. *)
(***************************************************************************)
EXTENDS Integers, Sequences, FiniteSets, TLC

VARIABLES
    pc,           \* the stage main() is about to run, or "done" / "exited"
    args,         \* the parsed command line: token, country, max, output
    env_token,    \* os.getenv("NORD_ACCESS_TOKEN")
    typed,        \* what getpass returned, None when it was not called
    token,        \* main's token
    cred_resp,    \* the response of the credentials endpoint
    private_key,  \* main's private_key
    srv_resp,     \* the response of the servers endpoint
    servers,      \* main's servers
    to_show,      \* choose_server's to_show
    lines,        \* the lines input() has returned to choose_server so far
    retries,      \* the retry messages choose_server has printed so far
    server,       \* main's server
    config_text,  \* main's config_text
    file,         \* the output file: its name and its text
    exit_status,  \* "running", "zero" or "nonzero"
    stderr,       \* the last message printed to the error stream
    trace         \* the stages that have started, in order

vars == <<pc, args, env_token, typed, token, cred_resp, private_key, srv_resp,
          servers, to_show, lines, retries, server, config_text, file,
          exit_status, stderr, trace>>

---------------------------------------------------------------------------
(* Bounds of the model.                                                    *)

\* The longest raw server list the servers endpoint answers with.
MaxRaw == 3
\* The longest server list handed to choose_server on its own.
MaxServers == 3
\* The most lines the user types at the selection prompt.
MaxLines == 3
\* The longest key handed to build_wireguard_config on its own, in symbols.
MaxKeyLen == 2

---------------------------------------------------------------------------
(* Python values.                                                          *)

\* None, where a str may stand: a sequence whose one symbol is no character.
None == <<"None">>

\* bool(x) of an Optional[str]: None and "" are false.
Truthy(x) == x # None /\ x # <<>>

\* dict.get(key, default)
Get(d, key, default) == IF key \in DOMAIN d THEN d[key] ELSE default

Range(s) == {s[i] : i \in DOMAIN s}

Min(a, b) == IF a <= b THEN a ELSE b
Max(a, b) == IF a >= b THEN a ELSE b

\* The characters str.strip() removes, of those the model's strings hold.
Whitespace == {" ", "\t", "\n"}

\* s[i:] for the first i with s[i] not whitespace
RECURSIVE LStrip(_)
LStrip(s) ==
    IF s # <<>> /\ Head(s) \in Whitespace THEN LStrip(Tail(s)) ELSE s

RECURSIVE RStrip(_)
RStrip(s) ==
    IF s # <<>> /\ s[Len(s)] \in Whitespace
    THEN RStrip(SubSeq(s, 1, Len(s) - 1))
    ELSE s

\* str.strip()
Strip(s) == RStrip(LStrip(s))

\* The letters and digits in code point order: str comparison orders two
\* characters as it orders their places here.
Ascii ==
    <<"0", "1", "2", "3", "4", "5", "6", "7", "8", "9",
      "A", "B", "C", "D", "E", "F", "G", "H", "I", "J", "K", "L", "M",
      "N", "O", "P", "Q", "R", "S", "T", "U", "V", "W", "X", "Y", "Z",
      "a", "b", "c", "d", "e", "f", "g", "h", "i", "j", "k", "l", "m",
      "n", "o", "p", "q", "r", "s", "t", "u", "v", "w", "x", "y", "z">>

CodePoint(c) == CHOOSE i \in DOMAIN Ascii : Ascii[i] = c

IsUpper(c) == c \in {Ascii[i] : i \in 11..36}

\* str.lower(), character by character
LowerChar(c) == IF IsUpper(c) THEN Ascii[CodePoint(c) + 26] ELSE c
Lower(s) == [i \in DOMAIN s |-> LowerChar(s[i])]

\* needle in haystack, for two strs
Contains(haystack, needle) ==
    \E i \in 0..(Len(haystack) - Len(needle)) :
        SubSeq(haystack, i + 1, i + Len(needle)) = needle

\* a < b for two strs: at the first place they differ the smaller code point
\* decides, and a proper prefix is smaller.
RECURSIVE StrLess(_, _)
StrLess(a, b) ==
    IF b = <<>> THEN FALSE
    ELSE IF a = <<>> THEN TRUE
    ELSE IF Head(a) # Head(b) THEN CodePoint(Head(a)) < CodePoint(Head(b))
    ELSE StrLess(Tail(a), Tail(b))

---------------------------------------------------------------------------
(* What a function call comes to.                                          *)

Return(v) == [kind |-> "return", value |-> v]
\* sys.exit(1) after a message on the error stream
Exit(msg) == [kind |-> "exit", value |-> msg]
\* an exception nothing catches: the interpreter prints it and exits with 1
Raise(exc) == [kind |-> "raise", value |-> exc]

---------------------------------------------------------------------------
(* get_token                                                               *)

\* getpass is called only when neither the command line nor the environment
\* gives a truthy token.
Prompts(cmd_token, env) == ~Truthy(cmd_token) /\ ~Truthy(env)

get_token(cmd_token, env, line) ==
    IF Truthy(cmd_token) THEN Return(Strip(cmd_token))
    ELSE IF Truthy(env) THEN Return(Strip(env))
    ELSE LET tok == Strip(line)
         IN  IF tok = <<>> THEN Exit("No token provided, exiting.")
             ELSE Return(tok)

---------------------------------------------------------------------------
(* fetch_nordlynx_private_key                                              *)

\* A dict with no key.
EmptyDict == [k \in {} |-> None]

\* requests.get either raises (no connection, a timeout) or gives a response:
\* a status code and a body.  resp.json() raises on a body that is no JSON,
\* and otherwise gives an object (a dict, its keys in fields) or an array (a
\* list, its elements in items).
NotJson == [type |-> "invalid", fields |-> EmptyDict, items |-> <<>>]
Object(d) == [type |-> "object", fields |-> d, items |-> <<>>]
Array(l) == [type |-> "array", fields |-> EmptyDict, items |-> l]

Response(status, body) ==
    [failed |-> FALSE, status_code |-> status, body |-> body]

NoResponse == Response(0, NotJson)

ConnectionFailed == [NoResponse EXCEPT !.failed = TRUE]

\* Response.raise_for_status raises for 4xx and 5xx.
IsErrorStatus(status) == 400 <= status /\ status < 600

\* fetch_nordlynx_private_key without its call of raise_for_status.
fetch_nordlynx_private_key_NoRaiseForStatus(resp) ==
    IF resp.failed THEN Raise("ConnectionError")
    ELSE IF resp.status_code = 401
    THEN Exit("Unauthorized: your access token is invalid or expired.")
    ELSE IF resp.body.type = "invalid" THEN Raise("JSONDecodeError")
    ELSE IF resp.body.type # "object" THEN Raise("AttributeError")
    ELSE LET key == Get(resp.body.fields, "nordlynx_private_key", None)
         IN  IF ~Truthy(key)
             THEN Exit("Could not find 'nordlynx_private_key' in credentials response.")
             ELSE Return(key)

fetch_nordlynx_private_key(resp) ==
    IF resp.failed THEN Raise("ConnectionError")
    ELSE IF resp.status_code = 401
    THEN Exit("Unauthorized: your access token is invalid or expired.")
    ELSE IF IsErrorStatus(resp.status_code) THEN Raise("HTTPError")
    ELSE IF resp.body.type = "invalid" THEN Raise("JSONDecodeError")
    ELSE IF resp.body.type # "object" THEN Raise("AttributeError")
    ELSE LET key == Get(resp.body.fields, "nordlynx_private_key", None)
         IN  IF ~Truthy(key)
             THEN Exit("Could not find 'nordlynx_private_key' in credentials response.")
             ELSE Return(key)

---------------------------------------------------------------------------
(* extract_wireguard_servers                                               *)

\* The smallest index at which the sequence of booleans hits is TRUE, 0 when
\* there is none: the "for ... if ...: break" search of the source.
FirstIndex(hits) ==
    LET I == {i \in DOMAIN hits : hits[i]}
    IN  IF I = {} THEN 0 ELSE CHOOSE i \in I : \A j \in I : i <= j

\* s.get("locations") or []
LocationsOf(s) == Get(s, "locations", <<>>)

\* locations[0].get("country", {}).get("name", "Unknown")
CountryOf(s) ==
    Get(Get(LocationsOf(s)[1], "country", EmptyDict), "name",
        <<"U", "n", "k", "n", "o", "w", "n">>)

\* locations[0].get("country", {}).get("city", {}).get("name", "")
CityOf(s) ==
    Get(Get(Get(LocationsOf(s)[1], "country", EmptyDict), "city", EmptyDict),
        "name", <<>>)

\* The filter test with the country name left in its own case.
FilteredOut_CountryNotLowered(country_filter, country) ==
    Truthy(country_filter) /\ ~Contains(country, Lower(country_filter))

\* country_filter and country_filter.lower() not in country.lower()
FilteredOut(country_filter, country) ==
    Truthy(country_filter) /\ ~Contains(Lower(country), Lower(country_filter))

IsWireguard(t) == Get(t, "identifier", None) = <<"wireguard_udp">>
IsPublicKey(md) == Get(md, "name", None) = <<"public_key">>

\* The first technology whose identifier is wireguard_udp; 0: wg_tech is None.
WgTechIndex(s) ==
    LET technologies == Get(s, "technologies", <<>>)
    IN  FirstIndex([i \in DOMAIN technologies |-> IsWireguard(technologies[i])])

\* The value of the first metadata entry of wg_tech named public_key, None
\* when there is no such entry or it has no value.
PublicKeyOf(s) ==
    LET wg_tech == Get(s, "technologies", <<>>)[WgTechIndex(s)]
        metadata == Get(wg_tech, "metadata", <<>>)
        i == FirstIndex([j \in DOMAIN metadata |-> IsPublicKey(metadata[j])])
    IN  IF i = 0 THEN None ELSE Get(metadata[i], "value", None)

\* The loop body without its test of the status.
Kept_WhateverTheStatus(s, country_filter) ==
    /\ LocationsOf(s) # <<>>
    /\ ~FilteredOut(country_filter, CountryOf(s))
    /\ WgTechIndex(s) # 0
    /\ Truthy(PublicKeyOf(s))

\* Whether the loop body reaches servers.append for s.
Kept(s, country_filter) ==
    /\ Get(s, "status", None) = <<"online">>
    /\ LocationsOf(s) # <<>>
    /\ ~FilteredOut(country_filter, CountryOf(s))
    /\ WgTechIndex(s) # 0
    /\ Truthy(PublicKeyOf(s))

\* The dict the loop appends for s.
ServerRecord(s) ==
    [id         |-> s.id,
     name       |-> Get(s, "name", None),
     hostname   |-> s.hostname,
     ip         |-> s.station,
     load       |-> s.load,
     country    |-> CountryOf(s),
     city       |-> CityOf(s),
     public_key |-> PublicKeyOf(s)]

\* The list the loop builds, before the sort.
RECURSIVE FilterServers(_, _)
FilterServers(all_servers, country_filter) ==
    IF all_servers = <<>> THEN <<>>
    ELSE LET s == Head(all_servers)
             rest == FilterServers(Tail(all_servers), country_filter)
         IN  IF Kept(s, country_filter) THEN <<ServerRecord(s)>> \o rest
             ELSE rest

\* (x["country"], x["city"], x["name"]) < (y[...]) as Python orders tuples:
\* the first component that differs decides.
KeyLess(x, y) ==
    IF x.country # y.country THEN StrLess(x.country, y.country)
    ELSE IF x.city # y.city THEN StrLess(x.city, y.city)
    ELSE IF x.name # y.name THEN StrLess(x.name, y.name)
    ELSE FALSE

\* The comparison of the two keys raises TypeError: it comes down to the
\* names, and one is None and the other a str.
Incomparable(x, y) ==
    /\ x.country = y.country
    /\ x.city = y.city
    /\ (x.name = None) # (y.name = None)

\* x put into a sorted list after every element that is not greater: the
\* sort is stable.
InsertSorted(sorted, x) ==
    LET J == {j \in DOMAIN sorted : ~KeyLess(x, sorted[j])}
        k == Cardinality(J)
    IN  SubSeq(sorted, 1, k) \o <<x>> \o SubSeq(sorted, k + 1, Len(sorted))

\* extract_wireguard_servers without its sort.
SortServers_NotSorting(list) == list

\* list.sort(key=...) on keys that can all be compared
RECURSIVE SortServers(_)
SortServers(list) ==
    IF list = <<>> THEN <<>>
    ELSE InsertSorted(SortServers(SubSeq(list, 1, Len(list) - 1)),
                      list[Len(list)])

\* A sort that ends has ordered every two elements it was given, and it can
\* order a None name and a str name of one city only by comparing two such
\* names: list.sort raises TypeError exactly when two keys are incomparable.
extract_wireguard_servers(all_servers, country_filter) ==
    LET list == FilterServers(all_servers, country_filter)
    IN  IF \E i, j \in DOMAIN list : Incomparable(list[i], list[j])
        THEN Raise("TypeError")
        ELSE Return(SortServers(list))

\* fetch_servers: the request, raise_for_status, resp.json(), and the filter.
\* Iterating a JSON object gives its keys, and .get on a key raises; an object
\* with no key is iterated like an empty list.
fetch_servers(resp, country_filter) ==
    IF resp.failed THEN Raise("ConnectionError")
    ELSE IF IsErrorStatus(resp.status_code) THEN Raise("HTTPError")
    ELSE IF resp.body.type = "invalid" THEN Raise("JSONDecodeError")
    ELSE IF resp.body.type = "object" /\ DOMAIN resp.body.fields # {}
    THEN Raise("AttributeError")
    ELSE extract_wireguard_servers(resp.body.items, country_filter)

---------------------------------------------------------------------------
(* choose_server                                                           *)

\* list[:n]: the first n elements, and for a negative n all but the last -n.
Slice(list, n) ==
    IF n >= 0 THEN SubSeq(list, 1, Min(n, Len(list)))
    ELSE SubSeq(list, 1, Max(Len(list) + n, 0))

\* The table row of s formats s['name'] with a width, which raises TypeError
\* for None.
Printable(s) == s.name # None

Digits == {Ascii[i] : i \in 1..10}

RECURSIVE DigitsValue(_)
DigitsValue(d) ==
    IF d = <<>> THEN 0
    ELSE 10 * DigitsValue(SubSeq(d, 1, Len(d) - 1)) + (CodePoint(d[Len(d)]) - 1)

\* int(line.strip()): an optional sign and one or more digits; anything else
\* of the model's characters raises ValueError (ok is FALSE).
ParseInt(line) ==
    LET t == Strip(line)
        signed == t # <<>> /\ Head(t) \in {"+", "-"}
        d == IF signed THEN Tail(t) ELSE t
    IN  IF d = <<>> \/ \E i \in DOMAIN d : d[i] \notin Digits
        THEN [ok |-> FALSE, value |-> 0]
        ELSE [ok |-> TRUE,
              value |-> IF signed /\ Head(t) = "-" THEN 0 - DigitsValue(d)
                        ELSE DigitsValue(d)]

\* The range test with "<" for its second "<=".
InRange_LastExcluded(line, shown) ==
    /\ ParseInt(line).ok
    /\ 1 <= ParseInt(line).value
    /\ ParseInt(line).value < Len(shown)

\* 1 <= choice <= len(to_show), for a line int() accepts
InRange(line, shown) ==
    /\ ParseInt(line).ok
    /\ 1 <= ParseInt(line).value
    /\ ParseInt(line).value <= Len(shown)

\* What one pass of the selection loop prints before it prompts again.
RetryMessage(line) ==
    IF ParseInt(line).ok THEN "Out of range, try again."
    ELSE "Please enter a number."

---------------------------------------------------------------------------
(* build_wireguard_config                                                  *)

\* The characters textwrap.dedent takes for indentation.
Blank == {" ", "\t"}

Spaces(n) == [i \in 1..n |-> " "]

\* The f-string of the source, from the opening quotes to the closing ones:
\* every line is indented by eight spaces and the last line is only that.
Template(key, srv) ==
    <<"\n">>
    \o Spaces(8) \o <<"[Interface]", "\n">>
    \o Spaces(8) \o <<"PrivateKey", " ", "=", " ">> \o key \o <<"\n">>
    \o Spaces(8) \o <<"Address">> \o Spaces(4) \o <<"=", " ", "10.5.0.2/32", "\n">>
    \o Spaces(8) \o <<"DNS">> \o Spaces(8)
        \o <<"=", " ", "103.86.96.100,", " ", "103.86.99.100", "\n">>
    \o <<"\n">>
    \o Spaces(8) \o <<"[Peer]", "\n">>
    \o Spaces(8) \o <<"PublicKey">> \o Spaces(11) \o <<"=", " ">>
        \o srv.public_key \o <<"\n">>
    \o Spaces(8) \o <<"AllowedIPs">> \o Spaces(9)
        \o <<"=", " ", "0.0.0.0/0,", " ", "::/0", "\n">>
    \o Spaces(8) \o <<"Endpoint">> \o Spaces(11) \o <<"=", " ">>
        \o srv.ip \o <<":51820", "\n">>
    \o Spaces(8) \o <<"PersistentKeepalive", " ", "=", " ", "25", "\n">>
    \o Spaces(8)

IsNewline(c) == c = "\n"
IsNotBlank(c) == c \notin Blank

\* text.split("\n")
RECURSIVE SplitLines(_)
SplitLines(text) ==
    LET i == FirstIndex([j \in DOMAIN text |-> IsNewline(text[j])])
    IN  IF i = 0 THEN <<text>>
        ELSE <<SubSeq(text, 1, i - 1)>>
             \o SplitLines(SubSeq(text, i + 1, Len(text)))

\* "\n".join(ls)
RECURSIVE JoinLines(_)
JoinLines(ls) ==
    IF Len(ls) = 1 THEN ls[1]
    ELSE ls[1] \o <<"\n">> \o JoinLines(Tail(ls))

\* The run of blanks a line starts with.
Indent(line) ==
    LET i == FirstIndex([j \in DOMAIN line |-> IsNotBlank(line[j])])
    IN  IF i = 0 THEN line ELSE SubSeq(line, 1, i - 1)

\* The longest sequence both a and b start with.
RECURSIVE CommonPrefix(_, _)
CommonPrefix(a, b) ==
    IF a = <<>> \/ b = <<>> \/ Head(a) # Head(b) THEN <<>>
    ELSE <<Head(a)>> \o CommonPrefix(Tail(a), Tail(b))

\* The margin of dedent: the longest run of blanks every line that holds more
\* than blanks starts with.
RECURSIVE Margin(_)
Margin(ls) ==
    IF ls = <<>> THEN None
    ELSE LET rest == Margin(Tail(ls))
             l == Head(ls)
         IN  IF Indent(l) = l THEN rest
             ELSE IF rest = None THEN Indent(l)
             ELSE CommonPrefix(Indent(l), rest)

\* textwrap.dedent: a line of blanks only becomes empty, and the margin is
\* taken off every line that starts with it.
dedent(text) ==
    LET ls == SplitLines(text)
        m == IF Margin(ls) = None THEN <<>> ELSE Margin(ls)
        cut(l) == IF Indent(l) = l THEN <<>>
                  ELSE SubSeq(l, Len(m) + 1, Len(l))
    IN  JoinLines([i \in DOMAIN ls |-> cut(ls[i])])

build_wireguard_config(key, srv) ==
    Strip(dedent(Template(key, srv))) \o <<"\n">>

---------------------------------------------------------------------------
(* The inputs of a run.                                                    *)

\* -m/--max when the option is not given
DefaultMax == 50

\* A token as the command line, the environment or the prompt may give it:
\* absent, empty, whitespace only, or with text.
TokenTexts ==
    {<<>>, <<" ">>, <<"\t", " ">>, <<"t">>, <<" ", "t">>, <<"t", "\n">>,
     <<" ", "t", "k", " ">>}
TokenInputs == {None} \cup TokenTexts

K1 == <<"K1">>
K2 == <<" ", "K2", "\n">>

CredStatuses == {200, 201, 401, 403, 500}
CredBodies ==
    {NotJson, Array(<<>>), Object(EmptyDict),
     Object([nordlynx_private_key |-> <<>>]),
     Object([nordlynx_private_key |-> None]),
     Object([nordlynx_private_key |-> K1]),
     Object([nordlynx_private_key |-> K2, id |-> <<"7">>])}
CredResponses ==
    {ConnectionFailed}
    \cup {Response(st, b) : st \in CredStatuses, b \in CredBodies}

Lithuania == <<"L", "i", "t", "h", "u", "a", "n", "i", "a">>
germany == <<"g", "e", "r", "m", "a", "n", "y">>
Vilnius == <<"V", "i", "l", "n", "i", "u", "s">>
Kaunas == <<"K", "a", "u", "n", "a", "s">>
Berlin == <<"B", "e", "r", "l", "i", "n">>

Location(country, city) ==
    [country |-> [name |-> country, city |-> [name |-> city]]]

PublicKey(value) == [name |-> <<"public_key">>, value |-> value]
Wireguard(metadata) ==
    [identifier |-> <<"wireguard_udp">>, metadata |-> metadata]
OpenVpn ==
    [identifier |-> <<"openvpn_udp">>, metadata |-> <<>>]

\* A server of the provider's list that every test of the filter passes.
RawServer(id, name, country, city) ==
    [id |-> id, name |-> name, hostname |-> name \o <<".nordvpn.com">>,
     station |-> <<"10.0.0.", ToString(id)>>, load |-> 10, status |-> <<"online">>,
     locations |-> <<Location(country, city)>>,
     technologies |-> <<Wireguard(<<PublicKey(K1)>>)>>]

\* RawServer(...) without the key k.
Without(s, k) == [x \in DOMAIN s \ {k} |-> s[x]]

lt2 == RawServer(1, <<"l", "t", "2">>, Lithuania, Vilnius)
lt10 == RawServer(2, <<"l", "t", "1", "0">>, Lithuania, Vilnius)
lt1 == RawServer(3, <<"l", "t", "1">>, Lithuania, Kaunas)
de1 ==
    [RawServer(4, <<"d", "e", "1">>, germany, Berlin)
        EXCEPT !.locations = <<Location(germany, Berlin),
                               Location(Lithuania, Vilnius)>>]
unnamed ==
    Without(RawServer(5, <<"l", "t", "5">>, Lithuania, Vilnius), "name")
nowhere ==
    [RawServer(6, <<"u", "n", "1">>, Lithuania, Vilnius)
        EXCEPT !.locations = <<EmptyDict>>,
               !.technologies =
                   <<OpenVpn,
                     Wireguard(<<[name |-> <<"endpoint">>, value |-> K1],
                                 PublicKey(<<"K3">>), PublicKey(K1)>>)>>]
offline ==
    [RawServer(7, <<"l", "t", "7">>, Lithuania, Vilnius)
        EXCEPT !.status = <<"offline">>]
locationless ==
    Without(RawServer(8, <<"l", "t", "8">>, Lithuania, Vilnius), "locations")
openvpnOnly ==
    [RawServer(9, <<"l", "t", "9">>, Lithuania, Vilnius)
        EXCEPT !.technologies = <<OpenVpn>>]
keyInSecond ==
    [RawServer(10, <<"l", "t", "a">>, Lithuania, Vilnius)
        EXCEPT !.technologies =
            <<[identifier |-> <<"wireguard_udp">>],
              Wireguard(<<PublicKey(K1)>>)>>]
emptyKey ==
    [RawServer(11, <<"l", "t", "b">>, Lithuania, Vilnius)
        EXCEPT !.technologies = <<Wireguard(<<PublicKey(<<>>)>>)>>]
valuelessKey ==
    [RawServer(12, <<"l", "t", "c">>, Lithuania, Vilnius)
        EXCEPT !.technologies =
            <<Wireguard(<<[name |-> <<"public_key">>]>>)>>]

RawEntries ==
    {lt2, lt10, lt1, de1, unnamed, nowhere, offline, locationless,
     openvpnOnly, keyInSecond, emptyKey, valuelessKey}

\* Every sequence over S of length at most n.
SeqsUpTo(S, n) == UNION {[1..k -> S] : k \in 0..n}

RawLists == SeqsUpTo(RawEntries, MaxRaw)

\* -c/--country: not given, empty, or a text.
CountryFilters ==
    {None, <<>>, <<"l", "i", "t", "h", "u">>, <<"A", "N">>, <<"U", "N", "K">>}

\* What the servers endpoint may answer: no answer, an error status, a body
\* that is no list of servers, or one of lists.
ServerResponses(lists) ==
    {ConnectionFailed, Response(404, NotJson),
     Response(503, Object([message |-> <<"error">>])), Response(503, Array(<<>>)),
     Response(200, NotJson), Response(200, Object(EmptyDict)),
     Response(200, Object([message |-> <<"error">>]))}
    \cup {Response(200, Array(l)) : l \in lists}

\* The lines typed at the selection prompt.
SampleLines ==
    {<<"a", "b", "c">>, <<"7">>, <<"2">>, <<"1">>, <<" ", "3", " ">>,
     <<"0">>, <<"-", "1">>, <<>>}

\* The values of -m/--max: the default, and every integer about the lengths
\* of the lists.
MaxValues == {DefaultMax} \cup ((0 - (MaxServers + 1))..(MaxServers + 1))

\* The server lists choose_server is given: what extract_wireguard_servers
\* returns, sorted.
ChooseEntries == {lt2, lt1, de1}
ServerLists ==
    {SortServers(FilterServers(l, None)) : l \in SeqsUpTo(ChooseEntries, MaxServers)}

\* The keys and addresses build_wireguard_config is given: runs of other
\* characters, blanks, line breaks, and a section header.
KeySymbols == {"k", " ", "\n", "[Peer]"}
ConfigKeys == SeqsUpTo(KeySymbols, MaxKeyLen)
ConfigAddresses == {<<"10.0.0.1">>, <<"10.0.0.1", "\n", "[Interface]">>}
ConfigServers ==
    {[ServerRecord(lt2) EXCEPT !.public_key = k, !.ip = a] :
        k \in (ConfigKeys \ {<<>>}), a \in ConfigAddresses}

\* The inputs of a whole run: a part of the above.
MainTokens == {None, <<" ">>, <<" ", "t">>}
MainEnvTokens == {None, <<"e", " ">>}
MainTyped == {<<" ">>, <<"p">>}
MainCredResponses ==
    {ConnectionFailed, Response(401, NotJson), Response(500, NotJson),
     Response(200, Object(EmptyDict)),
     Response(200, Object([nordlynx_private_key |-> K1]))}
MainRawLists ==
    {<<>>, <<offline>>, <<de1, lt2, lt1>>, <<unnamed, lt1>>, <<unnamed, lt2>>}
MainServerResponses == ServerResponses(MainRawLists)
MainFilters == {None, <<"l", "i", "t", "h", "u">>}
MainMaxValues == {DefaultMax, 1, 0, -1}
MainOutputs == {None, <<"out.conf">>}
MainLines == {<<"a", "b", "c">>, <<"7">>, <<"2">>}

---------------------------------------------------------------------------
(* main: the state before a stage has run, and the stages.                 *)

NoServer == [none |-> TRUE]
NoFile == [name |-> None, text |-> None]

Stages ==
    <<"get_token", "fetch_nordlynx_private_key", "fetch_servers",
      "choose_server", "build_wireguard_config", "write">>

\* The locals of main() before its first call.
Fresh ==
    /\ typed = None
    /\ token = None
    /\ cred_resp = NoResponse
    /\ private_key = None
    /\ srv_resp = NoResponse
    /\ servers = <<>>
    /\ to_show = <<>>
    /\ lines = <<>>
    /\ retries = <<>>
    /\ server = NoServer
    /\ config_text = None
    /\ file = NoFile
    /\ exit_status = "running"
    /\ stderr = ""
    /\ trace = <<>>

\* A fatal condition that prints its message and returns to main(), which
\* goes on with the next stage.
Die_AndGoOn(r) ==
    /\ pc' = Stages[(IF pc = "select" THEN 4 ELSE Len(trace) + 1) + 1]
    /\ stderr' = r.value
    /\ UNCHANGED exit_status

\* sys.exit(1), or an exception that nothing catches: the process ends with a
\* non-zero status and main() goes no further.
Die(r) ==
    /\ pc' = "exited"
    /\ exit_status' = "nonzero"
    /\ stderr' = r.value

\* token = get_token(args.token)
GetToken(Typed) ==
    /\ pc = "get_token"
    /\ trace' = Append(trace, Stages[1])
    /\ \E line \in IF Prompts(args.token, env_token) THEN Typed ELSE {None} :
        LET r == get_token(args.token, env_token, line)
        IN  /\ typed' = line
            /\ IF r.kind = "return"
               THEN /\ token' = r.value
                    /\ pc' = "fetch_nordlynx_private_key"
                    /\ UNCHANGED <<exit_status, stderr>>
               ELSE /\ Die(r)
                    /\ UNCHANGED token
    /\ UNCHANGED <<args, env_token, cred_resp, private_key, srv_resp, servers,
                   to_show, lines, retries, server, config_text, file>>

\* private_key = fetch_nordlynx_private_key(token)
FetchKey(Responses) ==
    /\ pc = "fetch_nordlynx_private_key"
    /\ trace' = Append(trace, Stages[2])
    /\ \E resp \in Responses :
        LET r == fetch_nordlynx_private_key(resp)
        IN  /\ cred_resp' = resp
            /\ IF r.kind = "return"
               THEN /\ private_key' = r.value
                    /\ pc' = "fetch_servers"
                    /\ UNCHANGED <<exit_status, stderr>>
               ELSE /\ Die(r)
                    /\ UNCHANGED private_key
    /\ UNCHANGED <<args, env_token, typed, token, srv_resp, servers, to_show,
                   lines, retries, server, config_text, file>>

\* servers = fetch_servers(args.country)
FetchServers(Responses) ==
    /\ pc = "fetch_servers"
    /\ trace' = Append(trace, Stages[3])
    /\ \E resp \in Responses :
        LET r == fetch_servers(resp, args.country)
        IN  /\ srv_resp' = resp
            /\ IF r.kind = "return"
               THEN /\ servers' = r.value
                    /\ pc' = "choose_server"
                    /\ UNCHANGED <<exit_status, stderr>>
               ELSE /\ Die(r)
                    /\ UNCHANGED servers
    /\ UNCHANGED <<args, env_token, typed, token, cred_resp, private_key,
                   to_show, lines, retries, server, config_text, file>>

\* choose_server, up to its loop: the empty list ends the run, and the table
\* of to_show is printed.
ChooseStart ==
    /\ pc = "choose_server"
    /\ trace' = Append(trace, Stages[4])
    /\ IF servers = <<>>
       THEN /\ Die(Exit("No matching WireGuard servers found."))
            /\ UNCHANGED to_show
       ELSE /\ to_show' = Slice(servers, args.max)
            /\ IF \A i \in DOMAIN to_show' : Printable(to_show'[i])
               THEN /\ pc' = "select"
                    /\ UNCHANGED <<exit_status, stderr>>
               ELSE Die(Raise("TypeError"))
    /\ UNCHANGED <<args, env_token, typed, token, cred_resp, private_key,
                   srv_resp, servers, lines, retries, server, config_text,
                   file>>

\* One pass of the loop of choose_server: the prompt, a line, and either the
\* return of the chosen server or a retry message.
ChooseRead(Lines) ==
    /\ pc = "select"
    /\ Len(lines) < MaxLines
    /\ \E line \in Lines :
        /\ lines' = Append(lines, line)
        /\ IF InRange(line, to_show)
           THEN /\ server' = to_show[ParseInt(line).value]
                /\ pc' = "build_wireguard_config"
                /\ UNCHANGED retries
           ELSE /\ retries' = Append(retries, RetryMessage(line))
                /\ UNCHANGED <<server, pc>>
    /\ UNCHANGED <<args, env_token, typed, token, cred_resp, private_key,
                   srv_resp, servers, to_show, config_text, file, exit_status,
                   stderr, trace>>

\* The input has ended: input() raises EOFError, which nothing catches.
ChooseEof ==
    /\ pc = "select"
    /\ Die(Raise("EOFError"))
    /\ UNCHANGED <<args, env_token, typed, token, cred_resp, private_key,
                   srv_resp, servers, to_show, lines, retries, server,
                   config_text, file, trace>>

\* config_text = build_wireguard_config(private_key, server)
BuildConfig ==
    /\ pc = "build_wireguard_config"
    /\ trace' = Append(trace, Stages[5])
    /\ config_text' = build_wireguard_config(private_key, server)
    /\ pc' = "write"
    /\ UNCHANGED <<args, env_token, typed, token, cred_resp, private_key,
                   srv_resp, servers, to_show, lines, retries, server, file,
                   exit_status, stderr>>

\* args.output or f"{server['hostname']}.conf"
Filename(output, srv) ==
    IF Truthy(output) THEN output ELSE srv.hostname \o <<".conf">>

\* The write of the file, the summary, and the return of main().
WriteFile ==
    /\ pc = "write"
    /\ trace' = Append(trace, Stages[6])
    /\ file' = [name |-> Filename(args.output, server), text |-> config_text]
    /\ pc' = "done"
    /\ exit_status' = "zero"
    /\ UNCHANGED <<args, env_token, typed, token, cred_resp, private_key,
                   srv_resp, servers, to_show, lines, retries, server,
                   config_text, stderr>>

---------------------------------------------------------------------------
(* The whole run.                                                          *)

Init ==
    /\ pc = "get_token"
    /\ args \in [token : MainTokens, country : MainFilters,
                 max : MainMaxValues, output : MainOutputs]
    /\ env_token \in MainEnvTokens
    /\ Fresh

Next ==
    \/ GetToken(MainTyped)
    \/ FetchKey(MainCredResponses)
    \/ FetchServers(MainServerResponses)
    \/ ChooseStart
    \/ ChooseRead(MainLines)
    \/ ChooseEof
    \/ BuildConfig
    \/ WriteFile

Spec == Init /\ [][Next]_vars

---------------------------------------------------------------------------
(* The stages on their own, each from the state main() is in when it       *)
(* calls it, over all the inputs above.                                    *)

Fresh2 == cred_resp = NoResponse /\ private_key = None
Fresh3 == srv_resp = NoResponse /\ servers = <<>>
Fresh4 == to_show = <<>> /\ lines = <<>> /\ retries = <<>> /\ server = NoServer
Fresh5 == config_text = None
Fresh6 == file = NoFile /\ exit_status = "running" /\ stderr = ""

DefaultArgs ==
    [token |-> None, country |-> None, max |-> DefaultMax, output |-> None]

GoodCredentials == Response(200, Object([nordlynx_private_key |-> K1]))

InitToken ==
    /\ pc = "get_token"
    /\ args \in {[DefaultArgs EXCEPT !.token = t] : t \in TokenInputs}
    /\ env_token \in TokenInputs
    /\ Fresh

SpecToken == InitToken /\ [][GetToken(TokenTexts)]_vars

InitKey ==
    /\ pc = "fetch_nordlynx_private_key"
    /\ args = DefaultArgs
    /\ env_token = None
    /\ typed \in TokenTexts
    /\ get_token(None, None, typed).kind = "return"
    /\ token = get_token(None, None, typed).value
    /\ trace = SubSeq(Stages, 1, 1)
    /\ Fresh2 /\ Fresh3 /\ Fresh4 /\ Fresh5 /\ Fresh6

SpecKey == InitKey /\ [][FetchKey(CredResponses)]_vars

InitExtract ==
    /\ pc = "fetch_servers"
    /\ args \in {[DefaultArgs EXCEPT !.country = c] : c \in CountryFilters}
    /\ env_token = None
    /\ typed = <<"t">>
    /\ token = <<"t">>
    /\ cred_resp = GoodCredentials
    /\ private_key = K1
    /\ trace = SubSeq(Stages, 1, 2)
    /\ Fresh3 /\ Fresh4 /\ Fresh5 /\ Fresh6

AllServerResponses == ServerResponses(RawLists)

SpecExtract == InitExtract /\ [][FetchServers(AllServerResponses)]_vars

InitChoose ==
    /\ pc = "choose_server"
    /\ args \in {[DefaultArgs EXCEPT !.max = m] : m \in MaxValues}
    /\ env_token = None
    /\ typed = <<"t">>
    /\ token = <<"t">>
    /\ cred_resp = GoodCredentials
    /\ private_key = K1
    /\ servers \in ServerLists
    /\ srv_resp = Response(200, Array(<<>>))
    /\ trace = SubSeq(Stages, 1, 3)
    /\ Fresh4 /\ Fresh5 /\ Fresh6

NextChoose == ChooseStart \/ ChooseRead(SampleLines) \/ ChooseEof

SpecChoose == InitChoose /\ [][NextChoose]_vars

InitConfig ==
    /\ pc = "build_wireguard_config"
    /\ args = DefaultArgs
    /\ env_token = None
    /\ typed = <<"t">>
    /\ token = <<"t">>
    /\ cred_resp = GoodCredentials
    /\ private_key \in ConfigKeys
    /\ srv_resp = Response(200, Array(<<>>))
    /\ server \in ConfigServers
    /\ servers = <<server>>
    /\ to_show = <<server>>
    /\ lines = << <<"1">> >>
    /\ retries = <<>>
    /\ trace = SubSeq(Stages, 1, 4)
    /\ Fresh5 /\ Fresh6

NextConfig == BuildConfig \/ WriteFile

SpecConfig == InitConfig /\ [][NextConfig]_vars

---------------------------------------------------------------------------
(* The claims.                                                             *)

Count(list, x) == Cardinality({i \in DOMAIN list : list[i] = x})

\* The stage that has started last has number Len(trace); StageSet(j) says
\* that stage j has left its result, StageUnset(j) that it has left nothing.
StageSet(j) ==
    CASE j = 1 -> token # None
      [] j = 2 -> private_key # None /\ cred_resp # NoResponse
      [] j = 3 -> srv_resp # NoResponse
      [] j = 4 -> servers # <<>> /\ (pc # "select" => server # NoServer)
      [] j = 5 -> config_text # None
      [] j = 6 -> file # NoFile

StageUnset(j) ==
    CASE j = 1 -> token = None
      [] j = 2 -> private_key = None
      [] j = 3 -> servers = <<>>
      [] j = 4 -> server = NoServer
      [] j = 5 -> config_text = None
      [] j = 6 -> file = NoFile

\* C1: get_token prefers the command line over the environment over the
\* prompt, trims each candidate before it accepts or rejects it, and passes
\* over a candidate that is empty once trimmed: the token it returns is the
\* first candidate with text, trimmed, and is never empty.
C1_TokenIsFirstCandidateWithText ==
    pc = "fetch_nordlynx_private_key" =>
        /\ token # <<>>
        /\ token =
               IF args.token # None /\ Strip(args.token) # <<>>
               THEN Strip(args.token)
               ELSE IF env_token # None /\ Strip(env_token) # <<>>
               THEN Strip(env_token)
               ELSE Strip(typed)

\* C2: the stages run in the one order get_token, fetch_nordlynx_private_key,
\* fetch_servers, choose_server, build_wireguard_config, write; a run that
\* has ended with a non-zero status stays ended, has run no stage after the
\* one that ended it, and has written no file; and a file is written only
\* when every stage before the write has left its result.
C2_StagesInOrderAndNoFileAfterFatalExit ==
    /\ trace = SubSeq(Stages, 1, Len(trace))
    /\ \A j \in (Len(trace) + 1)..Len(Stages) : StageUnset(j)
    /\ exit_status = "running" => \A j \in 1..(Len(trace) - 1) : StageSet(j)
    /\ exit_status = "nonzero" =>
           /\ pc = "exited"
           /\ file = NoFile
           /\ StageUnset(Len(trace))
    /\ file # NoFile =>
           /\ trace = Stages
           /\ exit_status = "zero"
           /\ \A j \in 1..Len(Stages) : StageSet(j)
           /\ file.text = config_text

\* A run that went through every stage and wrote the file.
C2_Witness ==
    /\ pc = "done"
    /\ file.text = config_text
    /\ Len(lines) = MaxLines

C3_IsOnline(s) == "status" \in DOMAIN s /\ s.status = <<"online">>
C3_HasLocation(s) == "locations" \in DOMAIN s /\ s.locations # <<>>
C3_HasWireguardKey(s) ==
    /\ "technologies" \in DOMAIN s
    /\ \E t \in Range(s.technologies) :
        /\ "identifier" \in DOMAIN t
        /\ t.identifier = <<"wireguard_udp">>
        /\ "metadata" \in DOMAIN t
        /\ \E md \in Range(t.metadata) :
            /\ md.name = <<"public_key">>
            /\ "value" \in DOMAIN md
            /\ md.value \notin {None, <<>>}

\* C3: every record extract_wireguard_servers returns has a non-empty
\* public_key and comes from an entry of the raw list that is online, has a
\* location, and has a wireguard_udp technology with a non-empty public_key.
C3_OnlyOnlineLocatedWireguardServers ==
    pc = "choose_server" =>
        \A i \in DOMAIN servers :
            /\ servers[i].public_key \notin {None, <<>>}
            /\ \E j \in DOMAIN srv_resp.body.items :
                LET s == srv_resp.body.items[j]
                IN  /\ s.id = servers[i].id
                    /\ C3_IsOnline(s)
                    /\ C3_HasLocation(s)
                    /\ C3_HasWireguardKey(s)

\* One server is returned from a list of three whose other two are offline
\* and without a public key.
C3_Witness ==
    /\ pc = "choose_server"
    /\ Len(servers) = 1
    /\ Len(srv_resp.body.items) = 3
    /\ offline \in Range(srv_resp.body.items)
    /\ emptyKey \in Range(srv_resp.body.items)

\* (a.country, a.city, a.name) <= (b.country, b.city, b.name)
C4_KeyLeq(a, b) ==
    \/ StrLess(a.country, b.country)
    \/ /\ a.country = b.country
       /\ \/ StrLess(a.city, b.city)
          \/ /\ a.city = b.city
             /\ (a.name = b.name \/ StrLess(a.name, b.name))

\* C4: the list extract_wireguard_servers returns is in ascending order of
\* (country, city, name), and holds each record the filter let through as
\* often as the filter let it through.
C4_SortedPermutationOfFiltered ==
    pc = "choose_server" =>
        LET passed == FilterServers(srv_resp.body.items, args.country)
        IN  /\ \A i \in 1..(Len(servers) - 1) :
                C4_KeyLeq(servers[i], servers[i + 1])
            /\ Len(servers) = Len(passed)
            /\ \A i \in DOMAIN passed :
                Count(servers, passed[i]) = Count(passed, passed[i])

\* Three servers are returned in another order than the raw list has them.
C4_Witness ==
    /\ pc = "choose_server"
    /\ Len(servers) = 3
    /\ servers # FilterServers(srv_resp.body.items, args.country)
    /\ servers[1] # servers[2]
    /\ servers[2] # servers[3]

\* The line is an integer k with 1 <= k <= n.
C5_IsSelection(line, n) ==
    ParseInt(line).ok /\ ParseInt(line).value \in 1..n

C5_LoopState ==
    (pc \in {"select", "build_wireguard_config"} /\ to_show # <<>>) =>
        LET n == Len(lines)
        IN  /\ \A i \in 1..(n - 1) : ~C5_IsSelection(lines[i], Len(to_show))
            /\ pc = "select" =>
                   /\ \A i \in 1..n : ~C5_IsSelection(lines[i], Len(to_show))
                   /\ Len(retries) = n
                   /\ server = NoServer
            /\ pc = "build_wireguard_config" =>
                   /\ n >= 1
                   /\ C5_IsSelection(lines[n], Len(to_show))
                   /\ server = to_show[ParseInt(lines[n]).value]
                   /\ Len(retries) = n - 1

C5_LoopStep ==
    (pc = "select" /\ pc' = "select" /\ to_show # <<>>) =>
        /\ Len(lines') = Len(lines) + 1
        /\ Len(retries') = Len(retries) + 1
        /\ UNCHANGED <<to_show, servers, server, args, file, exit_status>>

\* C5: with a non-empty displayed list, every line that is no integer of
\* [1, len(displayed)] brings one retry message and one more prompt and
\* changes nothing else, and choose_server returns at the first line that is
\* such an integer k, with displayed[k-1].
C5_RepromptUntilFirstValidLine == []C5_LoopState /\ [][C5_LoopStep]_vars

\* Three servers are displayed and the lines "abc", "7", "2" are typed: two
\* retries, and the second server is returned.
C5_Witness ==
    /\ pc = "build_wireguard_config"
    /\ Len(to_show) = 3
    /\ lines = << <<"a", "b", "c">>, <<"7">>, <<"2">> >>
    /\ Len(retries) = 2
    /\ server = to_show[2]

\* The first n entries of a list, in list order: none for n <= 0.
C6_FirstEntries(list, n) == SubSeq(list, 1, Min(Max(n, 0), Len(list)))

\* C6: for every -m/--max value, 0 and the negative ones too, the displayed
\* list is the first max_to_show entries of the server list, and the record
\* returned is the one of those at the position selected.
C6_DisplayedIsFirstMaxToShow ==
    pc \in {"select", "build_wireguard_config"} =>
        /\ to_show = C6_FirstEntries(servers, args.max)
        /\ pc = "build_wireguard_config" =>
               server = C6_FirstEntries(servers, args.max)[ParseInt(lines[Len(lines)]).value]

\* C7: an entry that passes every other test is kept exactly when the filter
\* is absent or empty, or the lower-cased filter is a substring of the
\* lower-cased country name extracted from locations[0].
C7_CountryFilterIsCaseInsensitiveSubstring ==
    pc = "choose_server" =>
        \A j \in DOMAIN srv_resp.body.items :
            LET s == srv_resp.body.items[j]
                f == args.country
                kept == \E i \in DOMAIN servers : servers[i].id = s.id
                matches ==
                    \E k \in 0..Len(CountryOf(s)) :
                        /\ k + Len(f) <= Len(CountryOf(s))
                        /\ \A n \in 1..Len(f) :
                            LowerChar(f[n]) = LowerChar(CountryOf(s)[k + n])
            IN  Kept(s, None) =>
                    (kept <=> (f = None \/ f = <<>> \/ matches))

\* The filter "lithu" keeps a server of "Lithuania" and drops one of
\* "germany".
C7_Witness ==
    /\ pc = "choose_server"
    /\ args.country = <<"l", "i", "t", "h", "u">>
    /\ \E i \in DOMAIN servers : servers[i].country = Lithuania
    /\ de1 \in Range(srv_resp.body.items)
    /\ \A i \in DOMAIN servers : servers[i].country # germany

\* C8: fetch_nordlynx_private_key returns exactly when the response has no
\* error status and its JSON body holds a non-empty nordlynx_private_key, and
\* then returns that field as it is; otherwise the process ends with a
\* non-zero status and no key.
C8_KeyOnlyFromGoodResponse ==
    pc # "fetch_nordlynx_private_key" =>
        LET fields == cred_resp.body.fields
            good ==
                /\ ~cred_resp.failed
                /\ cred_resp.status_code < 400
                /\ cred_resp.body.type = "object"
                /\ "nordlynx_private_key" \in DOMAIN fields
                /\ fields.nordlynx_private_key \notin {None, <<>>}
        IN  IF good
            THEN /\ pc = "fetch_servers"
                 /\ exit_status = "running"
                 /\ private_key = fields.nordlynx_private_key
            ELSE /\ pc = "exited"
                 /\ exit_status = "nonzero"
                 /\ private_key = None

\* A key with blanks around it is returned with them.
C8_Witness ==
    /\ pc = "fetch_servers"
    /\ cred_resp.status_code = 201
    /\ private_key = K2

C9_Lines == SplitLines(config_text)
C9_LinesThatAre(header) ==
    {i \in DOMAIN C9_Lines : Strip(C9_Lines[i]) = <<header>>}

\* C9: the text build_wireguard_config returns has exactly one [Interface]
\* line and exactly one [Peer] line, starts with no blank line, ends with
\* exactly one line break, and has the private key on its PrivateKey line,
\* the server's public_key on its PublicKey line and the server's ip,
\* followed by ":51820", on its Endpoint line.
C9_OneSectionEachAndKeysCarried ==
    pc \in {"write", "done"} =>
        /\ Cardinality(C9_LinesThatAre("[Interface]")) = 1
        /\ Cardinality(C9_LinesThatAre("[Peer]")) = 1
        /\ Head(config_text) \notin Whitespace
        /\ config_text[Len(config_text)] = "\n"
        /\ config_text[Len(config_text) - 1] \notin Whitespace
        /\ \E i \in DOMAIN C9_Lines :
            C9_Lines[i] = <<"PrivateKey", " ", "=", " ">> \o private_key
        /\ \E i \in DOMAIN C9_Lines :
            C9_Lines[i] = <<"PublicKey">> \o Spaces(11) \o <<"=", " ">>
                              \o server.public_key
        /\ \E i \in DOMAIN C9_Lines :
            C9_Lines[i] = <<"Endpoint">> \o Spaces(11) \o <<"=", " ">>
                              \o server.ip \o <<":51820">>

\* C10: whenever choose_server prompts, some line is a valid selection: the
\* accepted range [1, len(displayed)] is never empty.
C10_SomeLineIsAccepted ==
    pc = "select" => Len(to_show) >= 1

=============================================================================
